---- MODULE Spec2Model ----
(***************************************************************************)
(* A model of SumoEnv (src/EnvTest.py): the gym environment that drives    *)
(* the traffic light 'J1' of one intersection through TraCI.  The state is *)
(* the environment object's fields, the simulator session it owns (the     *)
(* displayed signal string, whether the connection is open) and a record   *)
(* of the latest call: its arguments, its outcome and the TraCI calls it   *)
(* made, in order.                                                         *)
(***************************************************************************)
EXTENDS Integers, Sequences, FiniteSets, TLC

(* ------------------------------ bounds -------------------------------- *)

\* Decision calls explored per episode under Spec (SpecEpisode has no cap).
MaxEpStep == 3

\* Calls of reset explored under Spec.
MaxEpisodes == 1

\* Largest halting-vehicle count one lane reports in the telemetry inputs.
MaxHalt == 2

\* Vehicles in one snapshot of the telemetry inputs of SpecEncode.
MaxVehicles == 2

(* ------------------------- program constants -------------------------- *)

cell_length == 7

detection_length == 350

\* width = 16: the columns of the grid, 4 lanes for each of the 4 edges
width == 16

\* height = int(detection_length / cell_length): the rows of the grid
height == detection_length \div cell_length

car_occupancy == 1

bus_occupancy == 1

min_left_green_time == 5

min_through_green_time == 12

yellow_time == 3

red_time == 2

\* reset: `while self.sim_step <= 600` / `if self.sim_step == 600`
WarmupTicks == 600

\* step: `if self.sim_step > 4400`
Horizon == 4400

\* set_yellow_red: `for i in range(18)`
NumGroups == 18

Groups == 1..NumGroups

\* spaces.Discrete(8): the keys of action_state_map
Actions == 0..7

\* A phase string is modelled as the tuple of its 18 characters.
action_state_map ==
    [k \in Actions |->
       CASE k = 0 -> <<"g","r","r","r","g","r","r","G","G","g","r","r","r","g","r","r","G","G">>
         [] k = 1 -> <<"g","r","r","r","g","r","r","r","r","g","r","r","r","g","G","G","G","G">>
         [] k = 2 -> <<"g","r","r","r","g","G","G","r","r","g","r","r","r","g","G","G","r","r">>
         [] k = 3 -> <<"g","r","r","r","g","G","G","G","G","g","r","r","r","g","r","r","r","r">>
         [] k = 4 -> <<"g","r","r","G","g","r","r","r","r","g","r","r","G","g","r","r","r","r">>
         [] k = 5 -> <<"g","r","r","r","g","r","r","r","r","g","G","G","G","g","r","r","r","r">>
         [] k = 6 -> <<"g","G","G","r","g","r","r","r","r","g","G","G","r","g","r","r","r","r">>
         [] k = 7 -> <<"g","G","G","G","g","r","r","r","r","g","r","r","r","g","r","r","r","r">>]


\* Actions a caller may pass that are no key of action_state_map.
InvalidActions == {-1, 8}

(* ----------------------------- telemetry ------------------------------ *)

\* The 16 lanes get_state queries: 4 edges x range(4), by width index + 1.
Lanes == 1..16

\* One vehicle's subscription results: VAR_TYPE, VAR_NEXT_TLS (empty, or the
\* distance to the next signal) and VAR_TIMELOSS.
Vehicle(t, tls_dist, loss) == [v_type |-> t, next_tls |-> tls_dist, timeloss |-> loss]

NoVehicles == <<>>

\* A conventional car 10 m before the stop line that has lost 3 s.
CarApproaching == Vehicle("car", <<10>>, 3)

\* A connected vehicle beyond the stop line (no signal ahead), 4 s lost.
CvCrossed == Vehicle("cv", <<>>, 4)

\* A bus 20 m before the stop line that has lost 3 s.
BusApproaching == Vehicle("bus", <<20>>, 3)

NoHalting == [l \in Lanes |-> 0]

\* traci.lane.getLastStepHaltingNumber: lane `lane` reports n halted vehicles.
HaltingOn(lane, n) == [l \in Lanes |-> IF l = lane THEN n ELSE 0]

\* What the simulator may answer to one get_state call: the vehicles of
\* getAllSubscriptionResults in order, and each lane's halting number.
Snapshots ==
    { [vehicles |-> NoVehicles, halting |-> NoHalting],
      [vehicles |-> <<CarApproaching>>, halting |-> NoHalting],
      [vehicles |-> <<CvCrossed, BusApproaching>>, halting |-> HaltingOn(16, MaxHalt)] }

\* The signal strings 'J1' may show when the warmup ends: the simulator's own
\* program runs during the warmup, so the string need not be a table entry.
AllRed == [i \in Groups |-> "r"]

WarmupSignals == { action_state_map[k] : k \in Actions } \cup { AllRed }

(* --------------------------- phase control ---------------------------- *)

\* The TraCI calls of one environment call, in order: a
\* setRedYellowGreenState('J1', state), or a run of n simulationStep calls.
SetEvent(state) == [op |-> "set", state |-> state, n |-> 0]

TickEvent(n) == [op |-> "tick", state |-> <<>>, n |-> n]

\* simulate with one tick too many.
simulate_one_more(steps_todo) == <<TickEvent(steps_todo + 1)>>

\* simulate(steps_todo): steps_todo simulationStep calls, each followed by
\* self.sim_step += 1.
simulate(steps_todo) == <<TickEvent(steps_todo)>>

\* YellowState without the comparison with the new string: every protected
\* green turns yellow.
YellowStateEveryGreen(action_state, old_action_state) ==
    [i \in Groups |-> IF old_action_state[i] = "G" THEN "Y" ELSE old_action_state[i]]

\* YellowState with its two strings exchanged: built on the new string.
YellowStateExchanged(action_state, old_action_state) ==
    [i \in Groups |->
        IF action_state[i] = "G" /\ action_state[i] # old_action_state[i]
        THEN "Y"
        ELSE action_state[i]]

\* set_yellow_red, first loop: the yellow string built from the two table
\* entries.
YellowState(action_state, old_action_state) ==
    [i \in Groups |->
        IF old_action_state[i] = "G" /\ old_action_state[i] # action_state[i]
        THEN "Y"
        ELSE old_action_state[i]]

\* RedState that also turns the greens it finds red.
RedStateGreensToo(yellow_state) ==
    [i \in Groups |->
        IF yellow_state[i] = "Y" \/ yellow_state[i] = "G" THEN "r" ELSE yellow_state[i]]

\* set_yellow_red, second loop: the red string built from the yellow string.
RedState(yellow_state) ==
    [i \in Groups |-> IF yellow_state[i] = "Y" THEN "r" ELSE yellow_state[i]]

\* Lookup with a default (action_state_map.get(action, entry 0)): no KeyError.
LookupWithDefault(action) ==
    IF action \in DOMAIN action_state_map
    THEN [found |-> TRUE, state |-> action_state_map[action]]
    ELSE [found |-> TRUE, state |-> action_state_map[0]]

\* action_state_map[action]: a KeyError for a key the table does not have.
Lookup(action) ==
    IF action \in DOMAIN action_state_map
    THEN [found |-> TRUE, state |-> action_state_map[action]]
    ELSE [found |-> FALSE, state |-> <<>>]

\* set_yellow_red that writes the red string before holding the yellow one.
set_yellow_red_unheld(action_state, old_action_state) ==
    <<SetEvent(YellowState(action_state, old_action_state)),
      SetEvent(RedState(YellowState(action_state, old_action_state)))>>
      \o simulate(yellow_time)
      \o simulate(red_time)

\* set_yellow_red(action, last_action), after its two table lookups.
set_yellow_red(action_state, old_action_state) ==
    <<SetEvent(YellowState(action_state, old_action_state))>>
      \o simulate(yellow_time)
      \o <<SetEvent(RedState(YellowState(action_state, old_action_state)))>>
      \o simulate(red_time)

\* set_green(action, min_green_time)
set_green(green_state, min_green_time) ==
    <<SetEvent(green_state)>> \o simulate(min_green_time)

\* MinGreenTime without the through-movement case.
MinGreenTimeLeftOnly(current_action) == min_left_green_time

\* step: the minimum green passed to set_green for the new action.
MinGreenTime(current_action) ==
    IF current_action = 2 \/ current_action = 6
    THEN min_through_green_time
    ELSE min_left_green_time

\* SignalControl whose hold writes the green string again.
SignalControlRewrite(current_action, last_act) ==
    IF current_action # last_act
    THEN set_yellow_red(Lookup(current_action).state, Lookup(last_act).state)
           \o set_green(Lookup(current_action).state, MinGreenTime(current_action))
    ELSE set_green(Lookup(current_action).state, 1)

\* step, lines 116-124: the TraCI calls of the signal control part.
SignalControl(current_action, last_act) ==
    IF current_action # last_act
    THEN set_yellow_red(Lookup(current_action).state, Lookup(last_act).state)
           \o set_green(Lookup(current_action).state, MinGreenTime(current_action))
    ELSE simulate(1)

\* The simulationStep calls among a call's TraCI calls.
RECURSIVE CountTicks(_)
CountTicks(events) ==
    IF events = <<>> THEN 0 ELSE Head(events).n + CountTicks(Tail(events))

\* The string 'J1' shows after the calls, having shown `shown` before them.
RECURSIVE Displayed(_, _)
Displayed(shown, events) ==
    IF events = <<>>
    THEN shown
    ELSE Displayed(IF Head(events).op = "set" THEN Head(events).state ELSE shown,
                   Tail(events))

(* ---------------------------- observation ----------------------------- *)

\* get_state: the person delay one vehicle adds to tot_person_delay. The
\* occupancy is car_occupancy for the class the mode tests first ('car', or
\* 'cv' with cv_only) and bus_occupancy for every other class.
PersonDelay(v, cv_only) ==
    LET ps_tls == IF v.next_tls # <<>> THEN v.next_tls[1] ELSE -1
        delay  == IF ps_tls > 0 THEN v.timeloss ELSE 0
    IN  IF v.v_type = (IF cv_only THEN "cv" ELSE "car")
        THEN delay * car_occupancy
        ELSE delay * bus_occupancy

\* The filter left out: every vehicle is handled in either mode.
IncludedAll(v, cv_only) == TRUE

\* get_state: whether the loop body handles the vehicle (cv_only filter).
Included(v, cv_only) ==
    IF ~cv_only THEN TRUE ELSE v.v_type = "cv" \/ v.v_type = "bus"

RECURSIVE SumDelay(_, _)
SumDelay(vehicles, cv_only) ==
    IF vehicles = <<>>
    THEN 0
    ELSE (IF Included(Head(vehicles), cv_only) THEN PersonDelay(Head(vehicles), cv_only) ELSE 0)
           + SumDelay(Tail(vehicles), cv_only)

RECURSIVE SumHalting(_, _)
SumHalting(halting, lane) ==
    IF lane > 16 THEN 0 ELSE halting[lane] + SumHalting(halting, lane + 1)

\* get_state: its local totals, and the second element of the pair it
\* returns (line 266).
get_state(snap, cv_only) ==
    [tot_person_delay |-> SumDelay(snap.vehicles, cv_only),
     tot_queue_veh    |-> SumHalting(snap.halting, 1),
     returned         |-> SumHalting(snap.halting, 1)]

(* ------------------------ get_state, in detail ------------------------ *)

\* One vehicle's subscription results in full. lane is VAR_LANE_ID as the
\* tuple of its parts between '_' (what split('_') returns; <<>> for the empty
\* string); speed is in tenths of m/s, for the grid holds floats until it is
\* cast.
VehicleOn(t, tls_dist, loss, lane, spd) ==
    [v_type |-> t, next_tls |-> tls_dist, timeloss |-> loss, lane |-> lane, speed |-> spd]

\* The vehicles the snapshots of SpecEncode are made of.
EncodePool ==
    { VehicleOn("car", <<10>>, 3, <<"E0", 1>>, 139),
      VehicleOn("bus", <<13>>, 2, <<"E0", 1>>, 50),
      VehicleOn("cv", <<100>>, 4, <<>>, 80),
      VehicleOn("cv", <<349>>, 1, <<"-E2", 0>>, 0),
      VehicleOn("car", <<350>>, 5, <<"E1", 3>>, 100),
      VehicleOn("bus", <<0>>, 6, <<"-E3", 2>>, 20),
      VehicleOn("car", <<>>, 7, <<":J1", 3, 0>>, 60) }

\* The sequences of at most n vehicles of the pool.
RECURSIVE VehicleSeqs(_)
VehicleSeqs(n) ==
    IF n = 0
    THEN {<<>>}
    ELSE VehicleSeqs(n - 1)
           \cup {Append(s, v) : s \in {q \in VehicleSeqs(n - 1) : Len(q) = n - 1},
                                v \in EncodePool}

\* edges.values(), in the dictionary's order: (first column, edge id)
edges == << <<0, "-E2">>, <<4, "-E3">>, <<8, "E0">>, <<12, "E1">> >>

\* `edge[1] in ln_id`: the edge id is a substring of the lane's edge id. Of
\* the ids of this network only an outgoing edge's id holds another id.
EdgeIn(edge_id, ln_id) ==
    \/ edge_id = ln_id
    \/ <<edge_id, ln_id>> \in {<<"E0", "-E0">>, <<"E1", "-E1">>}

\* The distance test with <= for <.
InDetectionRangeInclusive(ps_tls) == 0 <= ps_tls /\ ps_tls <= detection_length

\* `0 < ps_tls < detection_length`
InDetectionRange(ps_tls) == 0 < ps_tls /\ ps_tls < detection_length

\* The grid img_state: the cells written so far, <<row, column>> to
\* <<occupancy, speed>>; np.zeros: every other cell is <<0, 0>>.
Cell(img_state, c) == IF c \in DOMAIN img_state THEN img_state[c] ELSE <<0, 0>>

EmptyGrid == [c \in {} |-> <<0, 0>>]

WriteCell(img_state, c, pair) ==
    [d \in DOMAIN img_state \cup {c} |-> IF d = c THEN pair ELSE img_state[d]]

\* Lines 198-201 (232-235): the loop over the edges from edge k on, writing
\* the cell of every edge whose id is in ln[1].
RECURSIVE PlaceOnEdges(_, _, _, _, _)
PlaceOnEdges(img_state, k, height_index, ln, pair) ==
    IF k > Len(edges)
    THEN img_state
    ELSE PlaceOnEdges(IF EdgeIn(edges[k][2], ln[1])
                      THEN WriteCell(img_state, <<height_index, ln[2] + edges[k][1]>>, pair)
                      ELSE img_state,
                      k + 1, height_index, ln, pair)

\* The locals of get_state its vehicle loop carries from one vehicle to the
\* next: the grid, the delay total, the lane of the latest split (<<>> while
\* ln_id and ln_idx are unbound) and the error that ended the loop, if any.
Locals(img_state, tot, ln, error) ==
    [img_state |-> img_state, tot_person_delay |-> tot, ln |-> ln, error |-> error]

\* The body of the loop `for x in p` for one vehicle (lines 168-235).
LoopBody(loc, v, cv_only) ==
    LET ps_tls == IF v.next_tls # <<>> THEN v.next_tls[1] ELSE -1
        ln     == IF v.lane # <<>> THEN v.lane ELSE loc.ln
        tot    == loc.tot_person_delay + PersonDelay(v, cv_only)
        v_occupancy == IF v.v_type = (IF cv_only THEN "cv" ELSE "car")
                       THEN car_occupancy ELSE bus_occupancy
    IN  IF ~Included(v, cv_only) THEN loc
        ELSE IF v.lane # <<>> /\ Len(v.lane) # 2
             THEN Locals(loc.img_state, loc.tot_person_delay, loc.ln, "ValueError")
        ELSE IF ~InDetectionRange(ps_tls)
             THEN Locals(loc.img_state, tot, ln, "")
        ELSE IF ln = <<>>
             THEN Locals(loc.img_state, tot, ln, "UnboundLocalError")
        ELSE Locals(PlaceOnEdges(loc.img_state, 1, ps_tls \div cell_length, ln,
                                 <<v_occupancy, v.speed>>),
                    tot, ln, "")

\* astype(np.uint8) of a whole number and of a speed in tenths: the
\* fraction is dropped, and the result is taken modulo 256.
Uint8(x) == x % 256

Uint8Speed(tenths) == (tenths \div 10) % 256

\* Lines 245-263: the observation for the mode, from the grid and the
\* 16 halting numbers.
Observation(mode, img_state, queue_state) ==
    IF mode = "img"
    THEN [grid  |-> [c \in DOMAIN img_state |->
                       <<Uint8(img_state[c][1]), Uint8Speed(img_state[c][2])>>],
          queue |-> <<>>]
    ELSE IF mode = "comb"
    THEN [grid  |-> [c \in DOMAIN img_state |->
                       <<Uint8(img_state[c][1]), Uint8Speed(img_state[c][2])>>],
          queue |-> [l \in Lanes |-> Uint8(queue_state[l])]]
    ELSE [grid |-> EmptyGrid, queue |-> queue_state]

\* A get_state call in progress: what the simulator answers (vehicles,
\* halting), the index i of the next vehicle of the loop, the locals, and
\* once it has returned the pair (state, tot_queue_veh).
Encoding(pc, vehicles, halting, i, loc, state, tot_queue_veh) ==
    [pc |-> pc, vehicles |-> vehicles, halting |-> halting, i |-> i, loc |-> loc,
     state |-> state, tot_queue_veh |-> tot_queue_veh]

NoObservation == [grid |-> EmptyGrid, queue |-> <<>>]

NotEncoding ==
    Encoding("idle", <<>>, NoHalting, 1, Locals(EmptyGrid, 0, <<>>, ""), NoObservation, 0)

(* ------------------------------- state -------------------------------- *)

VARIABLES
    cv_det,                 \* self.cv_det
    obs_type,               \* self.obs_type
    episode,                \* self.episode
    total_rewards,          \* self.total_rewards
    done,                   \* self.done
    ep_reward,              \* self.ep_reward
    sim_step,               \* self.sim_step
    ep_step,                \* self.ep_step
    last_action,            \* self.last_action
    last_tot_person_delay,  \* self.last_tot_person_delay
    reward,                 \* self.reward
    conn,                   \* the TraCI session is open
    tls,                    \* the signal string 'J1' shows in the simulator
    tot_person_delay,       \* get_state's local total, at its latest call
    call,                   \* the latest call: what, its arguments, its outcome
    trace,                  \* the TraCI set/tick calls the latest call made
    baseline,               \* what get_state returned to the latest reset
    enc                     \* the get_state call SpecEncode follows step by step

vars == <<cv_det, episode, total_rewards, done, ep_reward, sim_step, ep_step,
          last_action, last_tot_person_delay, reward, conn, tls,
          tot_person_delay, call, trace, obs_type, baseline, enc>>

Call(op, action, last_act, outcome) ==
    [op |-> op, action |-> action, last_action |-> last_act, outcome |-> outcome]

\* __init__. The fields reset creates (done, ep_reward, sim_step, ep_step,
\* last_action, last_tot_person_delay) and step creates (reward) do not exist
\* yet: they hold 0/FALSE here and episode = 0 says so.
Init ==
    /\ cv_det \in BOOLEAN
    /\ episode = 0
    /\ total_rewards = <<>>
    /\ done = FALSE
    /\ ep_reward = 0
    /\ sim_step = 0
    /\ ep_step = 0
    /\ last_action = 0
    /\ last_tot_person_delay = 0
    /\ reward = 0
    /\ conn = FALSE
    /\ tls = AllRed
    /\ tot_person_delay = 0
    /\ call = Call("init", 0, 0, "ok")
    /\ trace = <<>>
    /\ obs_type = "img"
    /\ baseline = 0
    /\ enc = NotEncoding

(* ------------------------------- reset -------------------------------- *)

\* reset, lines 104-108: the loop over action_state_map.items(), from key k
\* on, with self.last_action = acc so far.
RECURSIVE InferLastAction(_, _, _)
InferLastAction(k, acc, last_phase) ==
    IF k > 7
    THEN acc
    ELSE InferLastAction(k + 1,
                         IF action_state_map[k] = last_phase THEN k ELSE 0,
                         last_phase)

\* reset(): close any session, start one, 600 warmup ticks, then the baseline
\* get_state and the inferred last action. `last_phase` is what 'J1' shows
\* after the warmup and `snap` the telemetry of the baseline get_state.
Reset(snap, last_phase) ==
    /\ episode' = episode + 1
    /\ conn' = TRUE
    /\ done' = FALSE
    /\ ep_reward' = 0
    /\ sim_step' = WarmupTicks
    /\ ep_step' = 0
    /\ tls' = last_phase
    /\ tot_person_delay' = get_state(snap, cv_det).tot_person_delay
    /\ last_tot_person_delay' = get_state(snap, cv_det).returned
    /\ last_action' = InferLastAction(0, last_action, last_phase)
    /\ call' = Call("reset", 0, 0, "ok")
    /\ trace' = simulate(WarmupTicks)
    /\ baseline' = get_state(snap, cv_det).returned
    /\ UNCHANGED <<cv_det, total_rewards, reward, obs_type, enc>>

(* -------------------------------- step -------------------------------- *)

\* EpisodeOver with >= for >.
EpisodeOverAtHorizon(steps) == steps >= Horizon

\* step, line 137
EpisodeOver(steps) == steps > Horizon

\* A call of step that raises before it changed anything.
StepRaises(action, error) ==
    /\ call' = Call("step", action, last_action, error)
    /\ trace' = <<>>
    /\ UNCHANGED <<cv_det, episode, total_rewards, done, ep_reward, sim_step,
                   ep_step, last_action, last_tot_person_delay, reward, conn,
                   tls, tot_person_delay, obs_type, baseline, enc>>

\* StepReturns with `self.ep_reward = self.reward` for the += of line 135.
StepReturnsLatestReward(action, snap) ==
    \E events \in {SignalControl(action, last_action)},
       current \in {get_state(snap, cv_det)} :
    \E r \in {last_tot_person_delay - current.returned},
       steps \in {sim_step + CountTicks(events)} :
        /\ trace' = events
        /\ tls' = Displayed(tls, events)
        /\ sim_step' = steps
        /\ tot_person_delay' = current.tot_person_delay
        /\ reward' = r
        /\ last_action' = action
        /\ last_tot_person_delay' = current.returned
        /\ ep_reward' = r
        /\ done' = IF EpisodeOver(steps) THEN TRUE ELSE done
        /\ conn' = IF EpisodeOver(steps) THEN FALSE ELSE conn
        /\ total_rewards' = IF EpisodeOver(steps)
                            THEN Append(total_rewards, r)
                            ELSE total_rewards
        /\ ep_step' = ep_step + 1
        /\ call' = Call("step", action, last_action, "ok")
        /\ UNCHANGED <<cv_det, episode, obs_type, baseline, enc>>

\* A call of step that returns: events are the TraCI calls of its signal
\* control, current what get_state computes after them, r the reward and steps
\* the tick counter after it.
StepReturns(action, snap) ==
    \E events \in {SignalControl(action, last_action)},
       current \in {get_state(snap, cv_det)} :
    \E r \in {last_tot_person_delay - current.returned},
       steps \in {sim_step + CountTicks(events)} :
        /\ trace' = events
        /\ tls' = Displayed(tls, events)
        /\ sim_step' = steps
        /\ tot_person_delay' = current.tot_person_delay
        /\ reward' = r
        /\ last_action' = action
        /\ last_tot_person_delay' = current.returned
        /\ ep_reward' = ep_reward + r
        /\ done' = IF EpisodeOver(steps) THEN TRUE ELSE done
        /\ conn' = IF EpisodeOver(steps) THEN FALSE ELSE conn
        /\ total_rewards' = IF EpisodeOver(steps)
                            THEN Append(total_rewards, ep_reward + r)
                            ELSE total_rewards
        /\ ep_step' = ep_step + 1
        /\ call' = Call("step", action, last_action, "ok")
        /\ UNCHANGED <<cv_det, episode, obs_type, baseline, enc>>

\* Step that goes on after the session was closed.
StepOnClosedSession(action, snap) ==
    IF episode = 0 THEN StepRaises(action, "AttributeError")
    ELSE IF action # last_action /\ ~Lookup(action).found
         THEN StepRaises(action, "KeyError")
    ELSE StepReturns(action, snap)

\* step(action). It raises at its first statement that cannot run: the read
\* of self.last_action before any reset (line 117), the table lookup of an
\* unknown action (line 287), the first TraCI call on a closed session
\* (line 298 or 271); all of them come before the first assignment.
Step(action, snap) ==
    IF episode = 0 THEN StepRaises(action, "AttributeError")
    ELSE IF action # last_action /\ ~Lookup(action).found
         THEN StepRaises(action, "KeyError")
    ELSE IF ~conn THEN StepRaises(action, "TraCIError")
    ELSE StepReturns(action, snap)

(* --------------------------- specifications --------------------------- *)

DoReset ==
    /\ episode < MaxEpisodes
    /\ \E snap \in Snapshots, last_phase \in WarmupSignals : Reset(snap, last_phase)

DoStep ==
    /\ ep_step < MaxEpStep
    /\ \E action \in Actions \cup InvalidActions, snap \in Snapshots : Step(action, snap)

Next == DoReset \/ DoStep

\* Every reset and every decision call, with any telemetry and any action,
\* over the first MaxEpStep decisions of up to MaxEpisodes episodes.
Spec == Init /\ [][Next]_vars

\* The actions SpecEpisode draws from: with them a decision costs 1 tick (a
\* hold), 10 ticks (the switch to 0) or 17 ticks (the switch to 2).
EpisodeActions == {0, 2}

QuietSnapshot == [vehicles |-> NoVehicles, halting |-> NoHalting]

InitEpisode == Init /\ cv_det = FALSE

ResetEpisode ==
    /\ episode = 0
    /\ Reset(QuietSnapshot, action_state_map[0])

StepEpisode == \E action \in EpisodeActions : Step(action, QuietSnapshot)

NextEpisode == ResetEpisode \/ StepEpisode

\* One whole episode from construction to its end at the horizon, every
\* decision either a hold or a switch, on quiet telemetry.
SpecEpisode == InitEpisode /\ [][NextEpisode]_vars


\* A call of step during which a simulator call raises. Neither step nor its
\* helpers catch anything, so the statements before the failing call have run
\* and those after it have not: with at = "control" the first TraCI call of
\* the signal control fails (line 298 or 271), with at = "telemetry" a query
\* of get_state fails (line 127) after the signal control has run.
StepFails(action, at) ==
    /\ episode > 0 /\ conn
    /\ action = last_action \/ Lookup(action).found
    /\ \E events \in {IF at = "control" THEN <<>> ELSE SignalControl(action, last_action)} :
          /\ trace' = events
          /\ tls' = Displayed(tls, events)
          /\ sim_step' = sim_step + CountTicks(events)
    /\ call' = Call("step", action, last_action, "SimulatorError")
    /\ UNCHANGED <<cv_det, episode, total_rewards, done, ep_reward, ep_step,
                   last_action, last_tot_person_delay, reward, conn,
                   tot_person_delay, obs_type, baseline, enc>>

\* A call of reset during which a simulator call raises: traci.start itself
\* (line 97; the old session was closed at line 86 and none is acquired), or
\* a query of get_state at tick 600 (line 102) in the session just started.
ResetFails(at, last_phase) ==
    /\ episode' = episode + 1
    /\ done' = FALSE
    /\ ep_reward' = 0
    /\ ep_step' = 0
    /\ conn' = (at = "telemetry")
    /\ sim_step' = IF at = "telemetry" THEN WarmupTicks ELSE 0
    /\ tls' = IF at = "telemetry" THEN last_phase ELSE tls
    /\ trace' = IF at = "telemetry" THEN simulate(WarmupTicks) ELSE <<>>
    /\ call' = Call("reset", 0, 0, "SimulatorError")
    /\ UNCHANGED <<cv_det, total_rewards, last_action, last_tot_person_delay, reward,
                   tot_person_delay, obs_type, baseline, enc>>

\* The caller (train.py) catches nothing either: an exception out of reset or
\* step ends the run.
Running == call.outcome # "SimulatorError"

DoResetOk == Running /\ DoReset

DoStepOk == Running /\ DoStep

DoStepFails ==
    /\ Running
    /\ ep_step < MaxEpStep
    /\ \E action \in Actions, at \in {"control", "telemetry"} : StepFails(action, at)

DoResetFails ==
    /\ Running
    /\ episode < MaxEpisodes
    /\ \E at \in {"start", "telemetry"}, last_phase \in WarmupSignals : ResetFails(at, last_phase)

NextFault == DoResetOk \/ DoStepOk \/ DoStepFails \/ DoResetFails

\* Spec, with simulator calls that may fail.
SpecFault == Init /\ [][NextFault]_vars

\* One get_state call, vehicle by vehicle: the environment is as constructed
\* in any mode, and the simulator answers with up to MaxVehicles vehicles of
\* the pool and with the lanes' halting numbers.
InitEncode ==
    /\ cv_det \in BOOLEAN
    /\ obs_type \in {"img", "comb", "vec"}
    /\ episode = 0
    /\ total_rewards = <<>>
    /\ done = FALSE
    /\ ep_reward = 0
    /\ sim_step = 0
    /\ ep_step = 0
    /\ last_action = 0
    /\ last_tot_person_delay = 0
    /\ reward = 0
    /\ conn = TRUE
    /\ tls = AllRed
    /\ tot_person_delay = 0
    /\ call = Call("init", 0, 0, "ok")
    /\ trace = <<>>
    /\ baseline = 0
    /\ \E vehicles \in VehicleSeqs(MaxVehicles), halting \in {NoHalting, HaltingOn(16, MaxHalt)} :
          enc = Encoding("loop", vehicles, halting, 1, Locals(EmptyGrid, 0, <<>>, ""),
                         NoObservation, 0)

EnvUnchanged ==
    UNCHANGED <<cv_det, obs_type, episode, total_rewards, done, ep_reward, sim_step,
                ep_step, last_action, last_tot_person_delay, reward, conn, tls,
                tot_person_delay, call, trace, baseline>>

\* One iteration of `for x in p`; an exception ends the call.
EncodeVehicle ==
    /\ enc.pc = "loop"
    /\ enc.i <= Len(enc.vehicles)
    /\ \E loc \in {LoopBody(enc.loc, enc.vehicles[enc.i], cv_det)} :
          enc' = [enc EXCEPT !.loc = loc,
                             !.i = enc.i + 1,
                             !.pc = IF loc.error = "" THEN "loop" ELSE "raised"]
    /\ EnvUnchanged

\* Lines 237-266: the halting numbers, the observation of the mode, return.
EncodeLanes ==
    /\ enc.pc = "loop"
    /\ enc.i > Len(enc.vehicles)
    /\ enc' = [enc EXCEPT !.pc = "returned",
                          !.state = Observation(obs_type, enc.loc.img_state, enc.halting),
                          !.tot_queue_veh = SumHalting(enc.halting, 1)]
    /\ EnvUnchanged

NextEncode == EncodeVehicle \/ EncodeLanes

SpecEncode == InitEncode /\ [][NextEncode]_vars

\* The vehicle the latest iteration of the loop handled, and the locals
\* before it. Only meaningful in an action formula on an EncodeVehicle step.
Handled == enc.vehicles[enc.i]

Iterated == enc.pc = "loop" /\ enc'.i = enc.i + 1

\* The step-by-step call totals what get_state totals.
EncodeAgreesWithGetState ==
    enc.pc = "returned" =>
        /\ enc.loc.tot_person_delay =
               get_state([vehicles |-> enc.vehicles, halting |-> enc.halting], cv_det).tot_person_delay
        /\ enc.tot_queue_veh =
               get_state([vehicles |-> enc.vehicles, halting |-> enc.halting], cv_det).returned

(* ------------------------------- claims ------------------------------- *)

\* The latest call was a step that returned.
StepOk == call.op = "step" /\ call.outcome = "ok"

\* ... with an action other than the last action / with the last action.
Switched == StepOk /\ call.action # call.last_action

Held == StepOk /\ call.action = call.last_action

\* The table strings of the last action the step found and of its action.
OldPhase == action_state_map[call.last_action]

NewPhase == action_state_map[call.action]

\* The positions of a signal string that show a green, protected or permitted.
Greens(state) == {i \in Groups : state[i] = "G" \/ state[i] = "g"}

\* C1: for every pair of a last action and a different requested action, the
\* yellow string the step writes first has 'Y' exactly where the old table
\* string has 'G' and the new one another character, and the old string's
\* character everywhere else.
C1_YellowExactlyLosingGreens ==
    Switched =>
        /\ trace[1].op = "set"
        /\ \A i \in Groups :
             /\ trace[1].state[i] = "Y" <=> (OldPhase[i] = "G" /\ NewPhase[i] # OldPhase[i])
             /\ trace[1].state[i] # "Y" => trace[1].state[i] = OldPhase[i]

\* A switch whose yellow string turns one protected green yellow, keeps
\* another protected green and keeps a permitted green.
C1_Witness ==
    /\ Switched
    /\ \E i, j, k \in Groups :
         /\ OldPhase[i] = "G" /\ trace[1].state[i] = "Y"
         /\ OldPhase[j] = "G" /\ trace[1].state[j] = "G"
         /\ OldPhase[k] = "g" /\ trace[1].state[k] = "g"

\* C2: the red string written right after the yellow string differs from it
\* exactly at the yellow string's 'Y' positions, where it has 'r'.
C2_RedExactlyTheYellows ==
    Switched =>
        /\ trace[1].op = "set" /\ trace[2].op = "tick" /\ trace[3].op = "set"
        /\ \A i \in Groups :
             /\ trace[1].state[i] = "Y" => trace[3].state[i] = "r"
             /\ trace[1].state[i] # "Y" => trace[3].state[i] = trace[1].state[i]

\* A switch whose red string turns a 'Y' into 'r' next to a kept 'G'.
C2_Witness ==
    /\ Switched
    /\ \E i, j \in Groups :
         /\ trace[1].state[i] = "Y" /\ trace[3].state[i] = "r"
         /\ trace[1].state[j] = "G" /\ trace[3].state[j] = "G"

\* C3: a step with a new action makes exactly these TraCI calls, in this
\* order: the yellow string, 3 ticks, the red string, 2 ticks, the new
\* action's table string, then only ticks.
C3_YellowRedGreenInOrder ==
    Switched =>
        /\ Len(trace) = 6
        /\ trace[1] = SetEvent(YellowState(NewPhase, OldPhase))
        /\ trace[2] = TickEvent(3)
        /\ trace[3] = SetEvent(RedState(trace[1].state))
        /\ trace[4] = TickEvent(2)
        /\ trace[5] = SetEvent(NewPhase)
        /\ trace[6].op = "tick"

\* A switch to the through phase 2 with its yellow held 3 ticks.
C3_Witness ==
    /\ Switched
    /\ call.action = 2
    /\ trace[2] = TickEvent(3)
    /\ trace[4] = TickEvent(2)

\* C4: a step with a new action ends with the new action's table string
\* written and then held for at least 12 ticks (actions 2 and 6) or at least
\* 5 ticks (the others), and the signal shows that string when it returns.
C4_MinimumGreenHeld ==
    Switched =>
        /\ trace[Len(trace) - 1] = SetEvent(NewPhase)
        /\ trace[Len(trace)].op = "tick"
        /\ trace[Len(trace)].n >= (IF call.action \in {2, 6} THEN 12 ELSE 5)
        /\ tls = NewPhase

\* A switch to the through phase 6, whose green is held 12 ticks.
C4_Witness ==
    /\ Switched
    /\ call.action = 6
    /\ trace[Len(trace)].n = 12

\* C5: a step with the last action advances the simulator by one tick and
\* writes no signal state: the displayed string and everything but the tick
\* are as before.
C5_HoldIsOneTick ==
    [][(call'.op = "step" /\ call'.outcome = "ok" /\ call'.action = call'.last_action)
         => /\ trace' = <<TickEvent(1)>>
            /\ sim_step' = sim_step + 1
            /\ tls' = tls
            /\ last_action' = last_action]_vars

\* A hold that returned.
C5_Witness ==
    /\ Held
    /\ trace = <<TickEvent(1)>>
    /\ sim_step > WarmupTicks

\* C6: in a transition the yellow and the red string show green only where
\* the old table string does, the final string is the new table entry, there
\* is one yellow and one red string, and a group that is 'G' in the old
\* string and not in the new one shows 'Y' and then 'r' before the new string.
C6_ClearanceBeforeNewGreen ==
    Switched =>
        /\ Len(trace) = 6
        /\ {i \in 1..6 : trace[i].op = "set"} = {1, 3, 5}
        /\ Greens(trace[1].state) \subseteq Greens(OldPhase)
        /\ Greens(trace[3].state) \subseteq Greens(OldPhase)
        /\ trace[5].state = NewPhase
        /\ tls = NewPhase
        /\ \A i \in Groups :
             (OldPhase[i] = "G" /\ NewPhase[i] # "G")
                => (trace[1].state[i] = "Y" /\ trace[3].state[i] = "r")

\* A transition in which one group loses its protected green while another
\* gains one.
C6_Witness ==
    /\ Switched
    /\ \E i, j \in Groups :
         /\ OldPhase[i] = "G" /\ NewPhase[i] = "r" /\ trace[3].state[i] = "r"
         /\ OldPhase[j] = "r" /\ NewPhase[j] = "G" /\ trace[3].state[j] = "r"

\* C7: when reset returns, last_action is the action whose table string the
\* signal shows, for every action, and it is 0 only if the signal shows no
\* table string or the string of action 0.
C7_LastActionMatchesSignal ==
    call.op = "reset" =>
        /\ \A k \in Actions : action_state_map[k] = tls => last_action = k
        /\ last_action = 0 =>
             \/ action_state_map[0] = tls
             \/ \A k \in Actions : action_state_map[k] # tls

\* C8: the reward a step returns is the total person delay of the previous
\* get_state (of the previous step or of reset) minus the total person delay
\* of this step's get_state.
C8_RewardIsPersonDelayDifference ==
    [][(call'.op = "step" /\ call'.outcome = "ok")
         => reward' = tot_person_delay - tot_person_delay']_vars

\* C9 as stated: the episode is reported as ended only once exactly 4400
\* ticks have been simulated after the 600 warmup ticks.
C9_EndsAt4400AfterWarmup == done => sim_step - WarmupTicks = Horizon

\* C9 amended: after reset, the episode is reported as ended exactly when the
\* tick counter, which includes the 600 warmup ticks, is above 4400: the
\* ending call leaves between 3801 and 3817 ticks simulated after the warmup,
\* and it is the first call to finish above 4400.
C9_EndsOnceCounterExceedsHorizon ==
    episode > 0 =>
        /\ done <=> sim_step > Horizon
        /\ done => sim_step - WarmupTicks \in
                     (Horizon - WarmupTicks + 1)..(Horizon - WarmupTicks + 17)
        /\ (done /\ StepOk) => sim_step - CountTicks(trace) <= Horizon

\* An episode ended by a 17-tick transition that started at the horizon.
C9_Witness ==
    /\ done
    /\ Switched
    /\ sim_step = Horizon + 17

\* C10: a step with an action outside 0..7 raises and changes nothing: no
\* TraCI call, and every field of the environment and the simulator as before.
C10_InvalidActionChangesNothing ==
    [][(call'.op = "step" /\ call'.action \notin Actions)
         => /\ call'.outcome \in {"KeyError", "AttributeError"}
            /\ trace' = <<>>
            /\ UNCHANGED <<cv_det, episode, total_rewards, done, ep_reward,
                           sim_step, ep_step, last_action, last_tot_person_delay,
                           reward, conn, tls>>]_vars

\* A step with action 8 in a running episode that raised KeyError.
C10_Witness ==
    /\ call = Call("step", 8, last_action, "KeyError")
    /\ conn
    /\ ep_step > 0

\* C11: the episode ends on time only. The session is closed, a reward is
\* archived and the episode is reported as ended by one call only: the step
\* that returns with the tick counter above 4400 for the first time, which
\* does all three and archives the episode's total reward; no call before or
\* after it does any of them.
C11_EndsOnceOnTimeOnly ==
    [][/\ (total_rewards' # total_rewards \/ (conn /\ ~conn') \/ (~done /\ done'))
            => /\ call'.op = "step" /\ call'.outcome = "ok"
               /\ sim_step <= Horizon /\ sim_step' > Horizon
               /\ total_rewards' = Append(total_rewards, ep_reward')
               /\ conn /\ ~conn'
               /\ ~done /\ done'
       /\ (call'.op = "step" /\ call'.outcome = "ok" /\ sim_step' > Horizon)
            => (done' /\ ~conn' /\ Len(total_rewards') = Len(total_rewards) + 1)
      ]_vars

\* An ended episode, its one reward archived, on which a further step raised.
C11_Witness ==
    /\ done
    /\ ~conn
    /\ Len(total_rewards) = 1
    /\ call.op = "step" /\ call.outcome = "TraCIError"

\* C12: a vehicle whose lane identifier is missing writes nothing into the
\* grid, whatever was processed before it; its delay is still added to the
\* total; the call does not fail. Stated for every iteration of the loop that
\* handles an included vehicle with an empty lane id.
C12_MissingLaneWritesNothing ==
    [][(Iterated /\ Included(Handled, cv_det) /\ Handled.lane = <<>>)
          => /\ enc'.pc # "raised"
             /\ enc'.loc.img_state = enc.loc.img_state
             /\ enc'.loc.tot_person_delay
                  = enc.loc.tot_person_delay + PersonDelay(Handled, cv_det)
      ]_vars

\* The distance to the stop line the loop uses for a vehicle: -1 when no
\* signal is known ahead.
DistanceOf(v) == IF v.next_tls # <<>> THEN v.next_tls[1] ELSE -1

\* The cells the grid holds written: the grid after differs from the grid
\* before in these.
Written(before, after) ==
    {c \in DOMAIN after : c \notin DOMAIN before \/ after[c] # before[c]}

\* C13: a vehicle populates a grid cell only if its distance d to the stop
\* line satisfies 0 < d < 350: an iteration for a vehicle with d = 0, d >= 350,
\* d < 0 or no signal ahead changes no cell, and every cell an iteration
\* writes is in row floor(d / 7), which lies in 0..49.
C13_PlacedOnlyInsideDetectionRange ==
    [][Iterated =>
         /\ ~(0 < DistanceOf(Handled) /\ DistanceOf(Handled) < 350)
               => enc'.loc.img_state = enc.loc.img_state
         /\ \A c \in Written(enc.loc.img_state, enc'.loc.img_state) :
               /\ 0 < DistanceOf(Handled) /\ DistanceOf(Handled) < 350
               /\ c[1] = DistanceOf(Handled) \div 7
               /\ c[1] \in 0..(height - 1)
      ]_vars

\* A car at exactly 350 m and a bus at exactly 0 m have been handled without
\* a trace, and a vehicle at 349 m sits in the last row.
C13_Witness ==
    /\ enc.pc = "returned" /\ ~cv_det
    /\ \E k \in 1..Len(enc.vehicles) : DistanceOf(enc.vehicles[k]) \in {0, 350}
    /\ DOMAIN enc.loc.img_state = {<<49, 0>>}

\* The occupancy weight of a vehicle's class (lines 186-191, 220-225).
OccupancyOf(v, cv_only) ==
    IF v.v_type = (IF cv_only THEN "cv" ELSE "car") THEN car_occupancy ELSE bus_occupancy

\* The cells a vehicle maps to by its own telemetry: none when it is filtered
\* out, has no lane id, or is outside the detection range.
MapsTo(v, cv_only) ==
    IF Included(v, cv_only) /\ Len(v.lane) = 2
         /\ 0 < DistanceOf(v) /\ DistanceOf(v) < 350
    THEN {<<DistanceOf(v) \div 7, v.lane[2] + edges[k][1]>> :
             k \in {j \in 1..Len(edges) : EdgeIn(edges[j][2], v.lane[1])}}
    ELSE {}

\* C14: when get_state returns, a cell several included vehicles map to holds
\* the (occupancy weight, speed) pair of the last of them in processing order
\* (overwritten, never summed), and a cell no vehicle maps to is zero. Stated
\* of the grid before the cast of the mode.
C14_LastVehicleWins ==
    enc.pc = "returned" =>
        \A c \in DOMAIN enc.loc.img_state
                   \cup UNION {MapsTo(enc.vehicles[k], cv_det) : k \in 1..Len(enc.vehicles)} :
            LET mapped == {k \in 1..Len(enc.vehicles) : c \in MapsTo(enc.vehicles[k], cv_det)}
                last   == CHOOSE k \in mapped : \A j \in mapped : j <= k
            IN  IF mapped = {}
                THEN Cell(enc.loc.img_state, c) = <<0, 0>>
                ELSE Cell(enc.loc.img_state, c)
                       = <<OccupancyOf(enc.vehicles[last], cv_det), enc.vehicles[last].speed>>

\* C15: with cv_only set, the iteration for a vehicle whose class is neither
\* 'cv' nor 'bus' changes no grid cell and adds nothing to the delay total
\* (it changes no local at all); every other vehicle, and with cv_only unset
\* every vehicle, is included in both: its person delay is added to the total
\* and the cells it maps to hold its pair, in every iteration that completes.
C15_FilterByClass ==
    [][Iterated =>
         /\ (cv_det /\ Handled.v_type \notin {"cv", "bus"})
               => enc'.loc = enc.loc
         /\ ((~cv_det \/ Handled.v_type \in {"cv", "bus"}) /\ enc'.pc # "raised")
               => /\ enc'.loc.tot_person_delay
                       = enc.loc.tot_person_delay + PersonDelay(Handled, cv_det)
                  /\ \A c \in MapsTo(Handled, cv_det) :
                        Cell(enc'.loc.img_state, c)
                          = <<OccupancyOf(Handled, cv_det), Handled.speed>>
      ]_vars

\* With cv_only set, a car inside the detection range that has lost time was
\* passed over and a bus after it was placed and counted.
C15_Witness ==
    /\ cv_det /\ enc.pc = "returned"
    /\ Len(enc.vehicles) = 2
    /\ enc.vehicles[1].v_type = "car" /\ DistanceOf(enc.vehicles[1]) = 10
    /\ enc.vehicles[2].v_type = "bus"
    /\ enc.loc.tot_person_delay = 2
    /\ DOMAIN enc.loc.img_state = {<<1, 9>>}

\* C16: in vector mode the observation get_state returns (which reset and
\* step hand on) is the length-16 queue vector normalized to [0,1]: every
\* entry is between 0 and 1, whatever the lanes' halting numbers are.
C16_VectorNormalized ==
    (enc.pc = "returned" /\ obs_type = "vec") =>
        /\ DOMAIN enc.state.queue = 1..width
        /\ \A l \in 1..width : 0 <= enc.state.queue[l] /\ enc.state.queue[l] <= 1

\* C17: if a simulator call fails during reset or during a step, the session
\* acquired before it has been closed by the time the failure reaches the
\* caller: no aborted call leaves the session open.
C17_FailureClosesSession ==
    call.outcome = "SimulatorError" => ~conn

\* C18: after reset returns and after every successful step, whatever the
\* warmup signal and the actions were, the signal string the simulator shows
\* is the table phase string of last_action (so the old phase the next yellow
\* is built from is the phase displayed).
C18_DisplayedIsPhaseOfLastAction ==
    ((call.op = "reset" /\ call.outcome = "ok") \/ StepOk)
        => tls = action_state_map[last_action]

\* C19: sim_step is 600 when reset returns, and every successful step
\* advances it by exactly 1 (the action is last_action), 17 (a switch to
\* action 2 or 6) or 10 (any other switch) and counts one decision; hence the
\* episode is reported as ended after at most 3801 decision calls: a
\* successful call is at most the 3801st of its episode, and the 3801st
\* reports the end.
C19_TicksPerDecisionBoundTheEpisode ==
    [][/\ episode' # episode => sim_step' = 600
       /\ (call'.op = "step" /\ call'.outcome = "ok")
            => /\ sim_step' - sim_step
                    = IF call'.action = call'.last_action THEN 1
                      ELSE IF call'.action \in {2, 6} THEN 17
                      ELSE 10
               /\ ep_step' = ep_step + 1
               /\ ~done /\ ep_step' <= 3801
               /\ ep_step' = 3801 => done'
      ]_vars

\* The longest episode: 3801 holds, the last of which reports the end.
C19_Witness ==
    /\ done
    /\ Held
    /\ ep_step = 3801

\* C20: ep_reward is 0 and ep_step is 0 when reset returns; every successful
\* step adds the reward it returns to ep_reward and one to ep_step, so that
\* ep_reward is the sum of the rewards since the reset and ep_step their
\* number; and the sum telescopes: ep_reward is the metric get_state returned
\* to the reset minus the metric it returned most recently.
C20_EpisodeRewardTelescopes ==
    [][/\ episode' # episode
            => /\ ep_reward' = 0 /\ ep_step' = 0
               /\ baseline' = last_tot_person_delay'
       /\ (call'.op = "step" /\ call'.outcome = "ok")
            => /\ ep_reward' = ep_reward + reward'
               /\ ep_step' = ep_step + 1
       /\ episode' > 0 => ep_reward' = baseline' - last_tot_person_delay'
      ]_vars

\* Two steps after a reset that saw halted vehicles: the first returned the
\* whole baseline as reward, the second returned 0.
C20_Witness ==
    /\ StepOk
    /\ ep_step = 2
    /\ baseline > 0
    /\ last_tot_person_delay = 0
    /\ reward = 0
    /\ ep_reward = baseline

====
